---- MODULE Spec2Model ----
(***************************************************************************)
(* ZeroCrossingAnalyzer.py: find_zero_crossing_times scans the (time,      *)
(* voltage) rows of a CSV file for zero crossings, interpolates the        *)
(* crossing time, debounces with TIME_INTERVAL_THRESHOLD and labels every  *)
(* retained crossing with a cycle number; process_files runs it over a     *)
(* list of files and writes one sheet per non-empty result.                *)
(*                                                                         *)
(* Numbers are binary floating-point values, written as reduced fractions  *)
(* <<n, d>> (d > 0); <<-1, 0>> and <<1, 0>> are -inf and +inf.  Every      *)
(* arithmetic operation rounds its exact result to MantBits significant    *)
(* bits, to nearest, ties to even, as IEEE-754 does with 53 bits.          *)
(***************************************************************************)
EXTENDS Integers, Sequences, FiniteSets, TLC

\* ---- bounds of the model ----
MantBits == 3
MaxLen == 4
MaxTime == 2
MaxVolt == 2
MaxInterval == 1
MaxFiles == 3
MaxWideTime == 14

\* ---- floating-point numbers ----
Abs(n) == IF n < 0 THEN -n ELSE n

RECURSIVE Gcd(_, _)
Gcd(a, b) == IF b = 0 THEN a ELSE Gcd(b, a % b)

\* the fraction n/d (d # 0) in lowest terms with a positive denominator
Frac(n, d) ==
    LET g == Gcd(Abs(n), Abs(d))
        s == IF d < 0 THEN -1 ELSE 1
    IN  <<(s * n) \div g, (s * d) \div g>>

NegInf == <<-1, 0>>
PosInf == <<1, 0>>
Zero == <<0, 1>>

\* x <= y, x < y on floats (the comparison of two floats is exact)
Le(x, y) == x[1] * y[2] <= y[1] * x[2]
Lt(x, y) == x[1] * y[2] < y[1] * x[2]
Ge(x, y) == Le(y, x)
Gt(x, y) == Lt(y, x)

\* a / (d * 2^e) rounded to an integer of MantBits bits, as <<mantissa, e>>
RECURSIVE RoundAbs(_, _, _)
RoundAbs(a, d, e) ==
    IF a >= d * 2^MantBits THEN RoundAbs(a, 2 * d, e + 1)
    ELSE IF a < d * 2^(MantBits - 1) THEN RoundAbs(2 * a, d, e - 1)
    ELSE LET q == a \div d
             r == a % d
             up == 2 * r > d \/ (2 * r = d /\ q % 2 = 1)
         IN  <<IF up THEN q + 1 ELSE q, e>>

\* the float nearest to the exact value n/d (round to nearest, ties to even)
Round(n, d) ==
    IF n = 0 THEN Zero
    ELSE LET f == Frac(n, d)
             m == RoundAbs(Abs(f[1]), f[2], 0)
             s == IF f[1] < 0 THEN -1 ELSE 1
         IN  IF m[2] >= 0 THEN <<s * m[1] * 2^(m[2]), 1>>
             ELSE Frac(s * m[1], 2^(0 - m[2]))

\* float64 arithmetic: the exact result, rounded
FAdd(x, y) == Round(x[1] * y[2] + y[1] * x[2], x[2] * y[2])
FSub(x, y) ==
    IF y = NegInf THEN PosInf
    ELSE Round(x[1] * y[2] - y[1] * x[2], x[2] * y[2])
FMul(x, y) == Round(x[1] * y[1], x[2] * y[2])
FDiv(x, y) == Round(x[1] * y[2], x[2] * y[1])

\* a decimal integer literal of the CSV text, parsed to the nearest float
ParseFloat(k) == Round(k, 1)

\* ---- find_zero_crossing_times ----
VARIABLES
    TIME_INTERVAL_THRESHOLD, \* the module-level debounce interval
    file_paths,              \* the files handed to process_files, by content
    pc,                      \* position of process_files
    idx,                     \* position of the loop over file_paths
    sheets,                  \* sheets written to the ExcelWriter (by file index)
    saved,                   \* the workbook was saved when the writer closed
    printed,                 \* the lines printed, in order
    results,                 \* what find_zero_crossing_times did for each file so far
    cycle_count,             \* the local of the most recent call
    last_recorded_time       \* the local of the most recent call

vars == <<TIME_INTERVAL_THRESHOLD, file_paths, pc, idx, sheets, saved, printed,
          results, cycle_count, last_recorded_time>>

\* the loop's test for a zero crossing between two adjacent rows
IsCrossingSymmetric(vp, vc) ==
    \/ Le(vp, Zero) /\ Gt(vc, Zero)
    \/ Lt(vp, Zero) /\ Ge(vc, Zero)
    \/ Ge(vp, Zero) /\ Lt(vc, Zero)
    \/ Gt(vp, Zero) /\ Le(vc, Zero)

IsCrossing(vp, vc) ==
    \/ Lt(vp, Zero) /\ Ge(vc, Zero)
    \/ Gt(vp, Zero) /\ Le(vc, Zero)

\* linear interpolation of the crossing instant, evaluated left to right
zero_crossing_time_reversed(tp, tc, vp, vc) ==
    FAdd(tp, FDiv(FMul(FSub(tc, tp), FSub(Zero, vp)), FSub(vp, vc)))

zero_crossing_time(tp, tc, vp, vc) ==
    FAdd(tp, FDiv(FMul(FSub(tc, tp), FSub(Zero, vp)), FSub(vc, vp)))

\* the debounce test
RetainAlways(z, last, th) == TRUE

Retain(z, last, th) == Ge(FSub(z, last), th)

DirectionSwapped(vp, vc) ==
    IF Lt(vp, Zero) /\ Ge(vc, Zero) THEN "Falling" ELSE "Rising"

Direction(vp, vc) ==
    IF Lt(vp, Zero) /\ Ge(vc, Zero) THEN "Rising" ELSE "Falling"

NextCycleAlways(cycle, direction) == cycle + 1

NextCycle(cycle, direction) ==
    IF direction = "Rising" THEN cycle + 1 ELSE cycle

\* one iteration of the loop over adjacent rows: i is the index of the
\* earlier row of the pair; acc holds the locals
ScanStep(name, rows, i, acc) ==
    LET tp == rows[i].time
        tc == rows[i + 1].time
        vp == rows[i].voltage
        vc == rows[i + 1].voltage
        z == zero_crossing_time(tp, tc, vp, vc)
        direction == Direction(vp, vc)
    IN  IF IsCrossing(vp, vc) /\ Retain(z, acc.last_recorded_time, TIME_INTERVAL_THRESHOLD)
        THEN [events |-> Append(acc.events,
                                [file_name |-> name, time |-> z,
                                 cycle |-> acc.cycle_count, direction |-> direction]),
              kept |-> Append(acc.kept, i),
              last_recorded_time |-> z,
              cycle_count |-> NextCycle(acc.cycle_count, direction)]
        ELSE acc

RECURSIVE Scan(_, _, _, _)
Scan(name, rows, i, acc) ==
    IF i >= Len(rows) THEN acc
    ELSE Scan(name, rows, i + 1, ScanStep(name, rows, i, acc))

\* the locals as the function sets them before the loop
Locals(cycle, last) ==
    [events |-> <<>>, kept |-> <<>>, cycle_count |-> cycle, last_recorded_time |-> last]

Raise(exception, acc) ==
    [raised |-> exception, events |-> <<>>, kept |-> <<>>,
     cycle_count |-> acc.cycle_count, last_recorded_time |-> acc.last_recorded_time]

DataEmptyBelowTwo(rows) == Len(rows) < 2

DataEmpty(rows) == Len(rows) = 0

\* the whole call for file number name with content f; kept is the list of
\* the pairs whose crossing was appended (history, not part of the DataFrame).
\* read_csv failing to decode reaches "raise UnicodeDecodeError(msg)", which
\* is itself a TypeError (the constructor takes five arguments); an empty
\* file is re-raised as ValueError; the ValueErrors for too few columns and
\* for no rows are caught by "except Exception" and leave as RuntimeError.
\* A call that raises before the locals are set leaves them as they were.
find_zero_crossing_times_with(name, f, cycle, last) ==
    LET never == Locals(cycle_count, last_recorded_time)
        fresh == Locals(cycle, last)
    IN  CASE f.kind = "undecodable" -> Raise("TypeError", never)
          [] f.kind = "empty_file" -> Raise("ValueError", never)
          [] f.kind = "few_columns" -> Raise("RuntimeError", never)
          [] OTHER ->
                IF DataEmpty(f.rows) THEN Raise("RuntimeError", fresh)
                ELSE LET acc == Scan(name, f.rows, 1, fresh)
                     IN  [raised |-> "none", events |-> acc.events, kept |-> acc.kept,
                          cycle_count |-> acc.cycle_count,
                          last_recorded_time |-> acc.last_recorded_time]

find_zero_crossing_times_from_zero(name, f) ==
    find_zero_crossing_times_with(name, f, 0, Zero)

find_zero_crossing_times_shared(name, f) ==
    find_zero_crossing_times_with(name, f, cycle_count, last_recorded_time)

find_zero_crossing_times(name, f) ==
    find_zero_crossing_times_with(name, f, 0, NegInf)

\* ---- the files ----
Row(t, v) == [time |-> ParseFloat(t), voltage |-> ParseFloat(v)]

\* a readable CSV file with at least five columns: rows n of columns 4 and 5
Table(ts, vs) ==
    [kind |-> "ok", rows |-> [i \in 1..Len(ts) |-> Row(ts[i], vs[i])]]

Unreadable(kind) == [kind |-> kind, rows |-> <<>>]

BadFiles == {Unreadable("undecodable"), Unreadable("empty_file"), Unreadable("few_columns")}

\* the time columns of n rows in ascending order, from 0..maxTime
Ascending(n, maxTime) ==
    {ts \in [1..n -> 0..maxTime] : \A i \in 1..(n - 1) : ts[i] <= ts[i + 1]}

Tables(maxLen, maxTime, maxVolt) ==
    UNION {{Table(ts, vs) : ts \in Ascending(n, maxTime),
                            vs \in [1..n -> (0 - maxVolt)..maxVolt]} : n \in 0..maxLen}

\* short waveforms sampled at times 0, 1, 2
BatchTables ==
    {Table(<<>>, <<>>), Table(<<0>>, <<-1>>), Table(<<0, 1>>, <<1, 1>>),
     Table(<<0, 1>>, <<-1, 1>>), Table(<<0, 1>>, <<1, -1>>),
     Table(<<0, 1, 2>>, <<-1, 1, -1>>), Table(<<0, 1, 2>>, <<1, -1, 1>>)}

FileLists(files, n) == UNION {[1..k -> files] : k \in 0..n}

\* ---- process_files ----
Say(i, msg) == Append(printed, [file |-> i, msg |-> msg])

InitWith(lists) ==
    /\ TIME_INTERVAL_THRESHOLD \in {ParseFloat(k) : k \in 0..MaxInterval}
    /\ file_paths \in lists
    /\ pc = "start"
    /\ idx = 0
    /\ sheets = {}
    /\ saved = FALSE
    /\ printed = <<>>
    /\ results = <<>>
    /\ cycle_count = 0
    /\ last_recorded_time = NegInf

\* at most one file: an unreadable one, a waveform of up to MaxLen rows with
\* voltages -1, 0, 1, a waveform of three rows with voltages up to MaxVolt, or
\* two rows with voltages -1, 0, 1 further apart in time
Init ==
    InitWith(FileLists(BadFiles \cup Tables(MaxLen, MaxTime, 1)
                         \cup Tables(3, MaxTime, MaxVolt)
                         \cup Tables(2, MaxWideTime, 1), 1))

\* several files, each one of a few waveforms
BatchInit == InitWith(FileLists(BadFiles \cup BatchTables, MaxFiles))

\* "if not file_paths": nothing to do
NoFiles ==
    /\ pc = "start"
    /\ file_paths = <<>>
    /\ printed' = Say(0, "no_files")
    /\ pc' = "returned"
    /\ UNCHANGED <<TIME_INTERVAL_THRESHOLD, file_paths, idx, sheets, saved, results,
                   cycle_count, last_recorded_time>>

\* pd.ExcelWriter(...) opens the output file
OpenWriter ==
    /\ pc = "start"
    /\ file_paths # <<>>
    /\ pc' = "loop"
    /\ idx' = 1
    /\ UNCHANGED <<TIME_INTERVAL_THRESHOLD, file_paths, sheets, saved, printed, results,
                   cycle_count, last_recorded_time>>

\* ... or raises: PermissionError or another exception, reported once
OpenWriterFails ==
    /\ pc = "start"
    /\ file_paths # <<>>
    /\ \E msg \in {"permission_denied", "save_error"} : printed' = Say(0, msg)
    /\ pc' = "returned"
    /\ UNCHANGED <<TIME_INTERVAL_THRESHOLD, file_paths, idx, sheets, saved, results,
                   cycle_count, last_recorded_time>>

\* the position of the loop after the file at i was handled with outcome r
NextFileAbortOnError(i, r) ==
    IF r.raised = "none" THEN i + 1 ELSE Len(file_paths) + 1

NextFile(i, r) == i + 1

\* one iteration of "for file_path in file_paths", to_excel succeeding or raising
ProcessFile ==
    /\ pc = "loop"
    /\ idx <= Len(file_paths)
    /\ \E r \in {find_zero_crossing_times(idx, file_paths[idx])} :
           /\ results' = Append(results, r)
           /\ cycle_count' = r.cycle_count
           /\ last_recorded_time' = r.last_recorded_time
           /\ idx' = NextFile(idx, r)
           /\ IF r.raised # "none"
              THEN /\ printed' = Say(idx, "error")
                   /\ sheets' = sheets
              ELSE IF r.events # <<>>
              THEN \/ /\ sheets' = sheets \cup {idx}
                      /\ printed' = Say(idx, "written")
                   \/ /\ sheets' = sheets
                      /\ printed' = Say(idx, "error")
              ELSE /\ printed' = Say(idx, "no_crossings")
                   /\ sheets' = sheets
    /\ UNCHANGED <<TIME_INTERVAL_THRESHOLD, file_paths, pc, saved>>

\* leaving the with block saves the workbook
CloseWriter ==
    /\ pc = "loop"
    /\ idx > Len(file_paths)
    /\ saved' = TRUE
    /\ printed' = Say(0, "saved")
    /\ pc' = "returned"
    /\ UNCHANGED <<TIME_INTERVAL_THRESHOLD, file_paths, idx, sheets, results,
                   cycle_count, last_recorded_time>>

\* ... or the save raises
CloseWriterFails ==
    /\ pc = "loop"
    /\ idx > Len(file_paths)
    /\ \E msg \in {"permission_denied", "save_error"} : printed' = Say(0, msg)
    /\ pc' = "returned"
    /\ UNCHANGED <<TIME_INTERVAL_THRESHOLD, file_paths, idx, sheets, saved, results,
                   cycle_count, last_recorded_time>>

Next ==
    \/ NoFiles
    \/ OpenWriter
    \/ OpenWriterFails
    \/ ProcessFile
    \/ CloseWriter
    \/ CloseWriterFails

Spec == Init /\ [][Next]_vars

BatchSpec == BatchInit /\ [][Next]_vars

\* ---- properties ----
Sign(v) == IF v[1] < 0 THEN -1 ELSE IF v[1] > 0 THEN 1 ELSE 0

\* the files analysed so far that were readable tables
Analysed == {k \in 1..Len(results) : file_paths[k].kind = "ok"}
Succeeded == {k \in Analysed : results[k].raised = "none"}

RowsOf(k) == file_paths[k].rows
EventsOf(k) == results[k].events
KeptOf(k) == results[k].kept

\* the adjacent pairs (i, i+1) of file k that are raw crossings
RisingPairs(k) ==
    {i \in 1..(Len(RowsOf(k)) - 1) :
        Sign(RowsOf(k)[i].voltage) = -1 /\ Sign(RowsOf(k)[i + 1].voltage) >= 0}
FallingPairs(k) ==
    {i \in 1..(Len(RowsOf(k)) - 1) :
        Sign(RowsOf(k)[i].voltage) = 1 /\ Sign(RowsOf(k)[i + 1].voltage) <= 0}
RawPairs(k) == RisingPairs(k) \cup FallingPairs(k)

\* the interpolated time of the pair (i, i+1) of file k
TimeOfPair(k, i) ==
    zero_crossing_time(RowsOf(k)[i].time, RowsOf(k)[i + 1].time,
                       RowsOf(k)[i].voltage, RowsOf(k)[i + 1].voltage)

KeptSet(k) == {KeptOf(k)[j] : j \in 1..Len(KeptOf(k))}

\* C1: two consecutive retained events of one source are at least
\* TIME_INTERVAL_THRESHOLD apart (the difference taken as the program takes
\* it), and last_recorded_time ends as the time of the last retained event
C1_MinInterval ==
    \A k \in Succeeded :
        /\ \A j \in 1..(Len(EventsOf(k)) - 1) :
              Ge(FSub(EventsOf(k)[j + 1].time, EventsOf(k)[j].time),
                 TIME_INTERVAL_THRESHOLD)
        /\ results[k].last_recorded_time =
              (IF EventsOf(k) = <<>> THEN NegInf
               ELSE EventsOf(k)[Len(EventsOf(k))].time)

\* a source with two retained events and a raw crossing rejected by the debounce
C1_Witness ==
    \E k \in Succeeded :
        /\ Len(EventsOf(k)) >= 2
        /\ Cardinality(RawPairs(k)) > Len(EventsOf(k))
        /\ Gt(TIME_INTERVAL_THRESHOLD, Zero)

\* C2: the cycle number starts at 0, goes up by one right after a Rising event
\* and stays after a Falling one; it is the number of Rising events before
C2_CycleIndex ==
    \A k \in Succeeded :
        LET ev == EventsOf(k)
        IN  /\ Len(ev) >= 1 => ev[1].cycle = 0
            /\ \A j \in 1..(Len(ev) - 1) :
                  ev[j + 1].cycle =
                      ev[j].cycle + (IF ev[j].direction = "Rising" THEN 1 ELSE 0)
            /\ \A j \in 1..Len(ev) :
                  ev[j].cycle =
                      Cardinality({m \in 1..(j - 1) : ev[m].direction = "Rising"})

\* a Rising event, a rejected raw crossing, and a later event of the next cycle
C2_Witness ==
    \E k \in Succeeded :
        /\ Len(EventsOf(k)) >= 2
        /\ EventsOf(k)[Len(EventsOf(k))].cycle >= 1
        /\ Cardinality(RawPairs(k)) > Len(EventsOf(k))

EventsAscend(k) ==
    \A j \in 1..(Len(EventsOf(k)) - 1) :
        Le(EventsOf(k)[j].time, EventsOf(k)[j + 1].time)

\* C3 as stated: events in non-decreasing time order, each within the closed
\* interval [prev.time, curr.time] of the pair that produced it
C3_Original ==
    \A k \in Succeeded :
        /\ EventsAscend(k)
        /\ \A j \in 1..Len(EventsOf(k)) :
              /\ Le(RowsOf(k)[KeptOf(k)[j]].time, EventsOf(k)[j].time)
              /\ Le(EventsOf(k)[j].time, RowsOf(k)[KeptOf(k)[j] + 1].time)

\* C3 amended: events in non-decreasing time order, none before the earlier
\* row of its pair
C3_OrderedNotBeforePrev ==
    \A k \in Succeeded :
        /\ EventsAscend(k)
        /\ \A j \in 1..Len(EventsOf(k)) :
              Le(RowsOf(k)[KeptOf(k)[j]].time, EventsOf(k)[j].time)

\* a source with three events at increasing times
C3_Witness ==
    \E k \in Succeeded :
        /\ Len(EventsOf(k)) >= 3
        /\ Lt(EventsOf(k)[1].time, EventsOf(k)[2].time)

\* raw crossings p before q of file k less than the threshold apart
CloseCrossings(k, p, q) ==
    /\ p \in RawPairs(k)
    /\ q \in RawPairs(k)
    /\ p < q
    /\ Lt(FSub(TimeOfPair(k, q), TimeOfPair(k, p)), TIME_INTERVAL_THRESHOLD)

\* C4 as stated: of any two raw crossings less than the threshold apart the
\* first is retained and the second is not
C4_Original ==
    \A k \in Succeeded : \A p, q \in RawPairs(k) :
        CloseCrossings(k, p, q) => p \in KeptSet(k) /\ q \notin KeptSet(k)

\* C4 amended: a raw crossing less than the threshold after a retained one
\* is not retained
C4_AfterRetained ==
    \A k \in Succeeded : \A p, q \in RawPairs(k) :
        CloseCrossings(k, p, q) /\ p \in KeptSet(k) => q \notin KeptSet(k)

\* a retained crossing, a rejected one, and a third close to the retained one
C4_Witness ==
    \E k \in Succeeded : \E p, q \in RawPairs(k) :
        /\ CloseCrossings(k, p, q)
        /\ p \in KeptSet(k)
        /\ \E r \in RawPairs(k) : p < r /\ r < q

\* no sample of file k is followed, anywhere later, by one of the opposite sign
NoSignChange(k) ==
    \A i, j \in 1..Len(RowsOf(k)) :
        i < j => Sign(RowsOf(k)[i].voltage) * Sign(RowsOf(k)[j].voltage) # -1

\* no strictly signed sample of file k is directly followed by a zero or by a
\* sample of the opposite sign
NeverLeavesSign(k) ==
    \A i \in 1..(Len(RowsOf(k)) - 1) :
        Sign(RowsOf(k)[i].voltage) # 0 =>
            Sign(RowsOf(k)[i + 1].voltage) = Sign(RowsOf(k)[i].voltage)

\* C5 as stated: a source of two or more rows without sign change, touching 0
\* or not, gives an empty event sequence and no error
C5_Original ==
    \A k \in Analysed :
        Len(RowsOf(k)) >= 2 /\ NoSignChange(k) =>
            results[k].raised = "none" /\ EventsOf(k) = <<>>

\* C5 amended: a source with at least one row in which no strictly signed
\* sample is directly followed by a zero or an opposite-sign sample gives an
\* empty event sequence and no error
C5_NeverLeavesSign ==
    \A k \in Analysed :
        Len(RowsOf(k)) >= 1 /\ NeverLeavesSign(k) =>
            results[k].raised = "none" /\ EventsOf(k) = <<>>

\* a waveform that rests at 0 and then turns positive, without an event
C5_Witness ==
    \E k \in Analysed :
        /\ Len(RowsOf(k)) >= 3
        /\ NeverLeavesSign(k)
        /\ Sign(RowsOf(k)[1].voltage) = 0
        /\ Sign(RowsOf(k)[Len(RowsOf(k))].voltage) = 1
        /\ EventsOf(k) = <<>>

\* C6 as stated: fewer than two rows is an error, never an empty result
C6_Original ==
    \A k \in Analysed :
        Len(RowsOf(k)) < 2 => results[k].raised # "none"

\* C6 amended: no row at all is an error; exactly one row is a successful,
\* empty result
C6_EmptyOnly ==
    \A k \in Analysed :
        /\ Len(RowsOf(k)) = 0 => results[k].raised = "RuntimeError"
        /\ Len(RowsOf(k)) = 1 => results[k].raised = "none" /\ EventsOf(k) = <<>>

\* a file of one row was analysed and reported as having no crossing
C6_Witness ==
    \E k \in Analysed :
        /\ Len(RowsOf(k)) = 1
        /\ \E n \in 1..Len(printed) : printed[n] = [file |-> k, msg |-> "no_crossings"]

Min(S) == CHOOSE x \in S : \A y \in S : x <= y

\* C9: the first raw crossing is retained whatever the threshold; a single raw
\* crossing gives one event with cycle 0, its direction and its interpolated
\* time; rows (0,-1),(1,1) give one Rising event at 0.5
C9_FirstRetained ==
    \A k \in Succeeded :
        /\ RawPairs(k) # {} =>
              /\ Len(KeptOf(k)) >= 1
              /\ KeptOf(k)[1] = Min(RawPairs(k))
        /\ Cardinality(RawPairs(k)) = 1 =>
              /\ Len(EventsOf(k)) = 1
              /\ EventsOf(k)[1].cycle = 0
              /\ EventsOf(k)[1].direction =
                    (IF RisingPairs(k) # {} THEN "Rising" ELSE "Falling")
              /\ EventsOf(k)[1].time = TimeOfPair(k, Min(RawPairs(k)))
        /\ file_paths[k] = Table(<<0, 1>>, <<-1, 1>>) =>
              EventsOf(k) = <<[file_name |-> k, time |-> <<1, 2>>, cycle |-> 0,
                               direction |-> "Rising"]>>

\* the rows (0,-1),(1,1) analysed under a threshold larger than 0.5
C9_Witness ==
    \E k \in Succeeded :
        /\ file_paths[k] = Table(<<0, 1>>, <<-1, 1>>)
        /\ Gt(TIME_INTERVAL_THRESHOLD, <<1, 2>>)
        /\ Len(EventsOf(k)) = 1

\* C10: every event comes from a pair whose earlier voltage is not 0; it is
\* Rising exactly when that voltage is negative and the later one is >= 0,
\* Falling exactly when it is positive and the later one is <= 0; no pair
\* that starts inside a run of zeros yields an event
C10_Direction ==
    \A k \in Succeeded :
        /\ \A j \in 1..Len(EventsOf(k)) :
              LET i == KeptOf(k)[j]
                  vp == RowsOf(k)[i].voltage
                  vc == RowsOf(k)[i + 1].voltage
                  d == EventsOf(k)[j].direction
              IN  /\ Sign(vp) # 0
                  /\ d \in {"Rising", "Falling"}
                  /\ d = "Rising" <=> (Sign(vp) = -1 /\ Sign(vc) >= 0)
                  /\ d = "Falling" <=> (Sign(vp) = 1 /\ Sign(vc) <= 0)
        /\ \A i \in 1..(Len(RowsOf(k)) - 1) :
              Sign(RowsOf(k)[i].voltage) = 0 => i \notin KeptSet(k)

\* a waveform that enters a run of two zeros from below and leaves it upwards:
\* one event, at the step that enters the run
C10_Witness ==
    \E k \in Succeeded :
        /\ Len(RowsOf(k)) = 4
        /\ Sign(RowsOf(k)[1].voltage) = -1
        /\ Sign(RowsOf(k)[2].voltage) = 0
        /\ Sign(RowsOf(k)[3].voltage) = 0
        /\ Sign(RowsOf(k)[4].voltage) = 1
        /\ KeptOf(k) = <<1>>

\* ---- the batch ----
\* the lines printed about a file, in order
FileLines == SelectSeq(printed, LAMBDA l : l.file # 0)

\* the loop over file_paths ran to its end and the writer was closed
LoopEnded == pc = "returned" /\ idx > 0

\* C7: a failing file never stops the loop: every file is analysed, in list
\* order, each gets exactly one line (written, no crossings, or error), and
\* the workbook has a sheet for exactly the files that were analysed without
\* error, had events, and whose sheet was written
C7_BatchIsolation ==
    /\ pc = "loop" => Len(results) = idx - 1 /\ Len(FileLines) = idx - 1
    /\ \A n \in 1..Len(FileLines) : FileLines[n].file = n
    /\ LoopEnded =>
          /\ Len(results) = Len(file_paths)
          /\ Len(FileLines) = Len(file_paths)
          /\ \A k \in 1..Len(file_paths) :
                /\ FileLines[k].msg \in {"written", "no_crossings", "error"}
                /\ results[k].raised # "none" => FileLines[k].msg = "error"
                /\ FileLines[k].msg = "no_crossings" <=>
                      (results[k].raised = "none" /\ results[k].events = <<>>)
                /\ FileLines[k].msg = "written" =>
                      (results[k].raised = "none" /\ results[k].events # <<>>)
          /\ sheets = {k \in 1..Len(file_paths) : FileLines[k].msg = "written"}

\* three files, the second without data: sheets for the first and the third
C7_Witness ==
    /\ LoopEnded
    /\ saved
    /\ Len(file_paths) = 3
    /\ file_paths[2] = Table(<<>>, <<>>)
    /\ results[2].raised = "RuntimeError"
    /\ sheets = {1, 3}

\* an event without the name of its file
Bare(e) == [time |-> e.time, cycle |-> e.cycle, direction |-> e.direction]

\* C8: detection keeps nothing between calls: two files of a batch with the
\* same content get the same outcome and the same events, whatever was
\* analysed before each of them, and every file's first raw crossing is
\* retained with cycle 0
C8_NoHiddenState ==
    /\ \A j, k \in 1..Len(results) :
          file_paths[j] = file_paths[k] =>
              /\ results[j].raised = results[k].raised
              /\ results[j].kept = results[k].kept
              /\ Len(results[j].events) = Len(results[k].events)
              /\ \A n \in 1..Len(results[j].events) :
                    Bare(results[j].events[n]) = Bare(results[k].events[n])
    /\ \A k \in Succeeded :
          RawPairs(k) # {} =>
              /\ Len(KeptOf(k)) >= 1
              /\ KeptOf(k)[1] = Min(RawPairs(k))
              /\ EventsOf(k)[1].cycle = 0

\* the same waveform analysed twice, the first call ending with a cycle count
\* above 0 and a finite last recorded time
C8_Witness ==
    \E j, k \in 1..Len(results) :
        /\ j < k
        /\ file_paths[j] = file_paths[k]
        /\ results[j].cycle_count > 0
        /\ results[k].events # <<>>
        /\ Gt(TIME_INTERVAL_THRESHOLD, Zero)
====
